---- MODULE Spec2Model ----
(***************************************************************************)
(* Model of abc_container.ABContainer, a metaclass that checks, when a     *)
(* class is created, that the class carries the attributes its container   *)
(* parents list in their annotations.                                      *)
(*                                                                         *)
(* A class object is a record                                              *)
(*   [name, bases, annotations, attrs, meta]                               *)
(* where bases is the tuple cls.__bases__ (class objects), annotations the *)
(* keys of the class's own __annotations__ in body order, attrs the names  *)
(* bound to a value in the class's own namespace, and meta the name of     *)
(* type(cls).  Names are strings; the prefix test and the compiler's       *)
(* private-name mangling work on their characters.  cls.__annotations__ is *)
(* the class's own dict (Python 3.10 and later).  Two class objects with   *)
(* the same fields behave alike and are one value here.                    *)
(***************************************************************************)
EXTENDS Integers, Sequences, FiniteSets, TLC

VARIABLES
    heap,     \* class objects type.__new__ has created and that are still in memory
    bound,    \* class objects a class statement returned to the program
    raised,   \* the error __new__ raised for each class object it did not return
    walk      \* one running call of _get_class_bases: its frames and its result

vars == <<heap, bound, raised, walk>>

----------------------------------------------------------------------------
(* Bounds of the model. *)

\* user classes in memory at once
MaxClasses == 3
\* direct bases a class statement lists
MaxBases == 2
\* classes in memory at once when only chains of containers are declared
MaxChain == 4

(* Inputs of a class statement. *)

ClassNames == {"X", "_Y"}
PublicClassNames == {"X"}

\* the identifiers a class body may declare, in the order the body lists them
Idents == <<"a", "b", "__p">>

\* how a body declares an identifier: not at all, `n: Any`, `n = v`, `n: Any = v`
Forms == {"none", "ann", "val", "annval"}

\* container bodies over the public identifiers a and b
Bodies ==
    {body \in [DOMAIN Idents -> Forms] :
        /\ body[3] = "none"
        /\ \/ body[1] # "annval" /\ body[2] # "annval"
           \/ body[1] = "annval" /\ body[2] = "none"}

\* bodies of ordinary classes: the identifier a alone
PlainBodies ==
    {body \in [DOMAIN Idents -> Forms] :
        /\ body[1] # "annval"
        /\ body[2] = "none"
        /\ body[3] = "none"}

\* container bodies over the identifier a alone
ChainBodies ==
    {body \in [DOMAIN Idents -> Forms] : body[2] = "none" /\ body[3] = "none"}

\* bodies over the identifier a and the private identifier __p
PrivateBodies ==
    {body \in [DOMAIN Idents -> Forms] :
        /\ body[1] # "annval"
        /\ body[2] = "none"
        /\ body[3] \in {"none", "ann"}}

EmptyBody == [i \in DOMAIN Idents |-> "none"]

----------------------------------------------------------------------------
(* Strings. *)

\* str.startswith
StartsWith(s, prefix) ==
    /\ Len(prefix) <= Len(s)
    /\ SubSeq(s, 1, Len(prefix)) = prefix

EndsWith(s, suffix) ==
    /\ Len(suffix) <= Len(s)
    /\ SubSeq(s, Len(s) - Len(suffix) + 1, Len(s)) = suffix

RECURSIVE StripLeadingUnderscores(_)
StripLeadingUnderscores(s) ==
    IF Len(s) > 0 /\ SubSeq(s, 1, 1) = "_"
    THEN StripLeadingUnderscores(SubSeq(s, 2, Len(s)))
    ELSE s

\* The key under which the compiler stores identifier `ident` of the body of
\* class `className`: __x becomes _Class__x, the class name without its leading
\* underscores (the docstring's __omit_this_field).
Mangle(className, ident) ==
    IF ~StartsWith(ident, "__") \/ EndsWith(ident, "__")
    THEN ident
    ELSE IF StripLeadingUnderscores(className) = ""
         THEN ident
         ELSE "_" \o StripLeadingUnderscores(className) \o ident

----------------------------------------------------------------------------
(* Class objects. *)

object ==
    [name |-> "object", bases |-> <<>>, annotations |-> <<>>, attrs |-> {},
     meta |-> "type"]

Range(seq) == {seq[i] : i \in DOMAIN seq}

RECURSIVE KeysFrom(_, _, _)
KeysFrom(className, body, i) ==
    IF i > Len(Idents) THEN <<>>
    ELSE (IF body[i] \in {"ann", "annval"}
          THEN <<Mangle(className, Idents[i])>> ELSE <<>>)
         \o KeysFrom(className, body, i + 1)

\* keys of the __annotations__ the body produces, in body order
BodyAnnotations(className, body) == KeysFrom(className, body, 1)

\* names the body binds to a value
BodyAttrs(className, body) ==
    {Mangle(className, Idents[i]) :
        i \in {j \in DOMAIN Idents : body[j] \in {"val", "annval"}}}

\* The class object type.__new__ builds for `class name(*bases): body`; a class
\* statement without bases derives from object.
NewClass(name, bases, body, meta) ==
    [name |-> name,
     bases |-> IF bases = <<>> THEN <<object>> ELSE bases,
     annotations |-> BodyAnnotations(name, body),
     attrs |-> BodyAttrs(name, body),
     meta |-> meta]

(* The method resolution order type.__new__ computes (C3 linearization). *)

\* merge of the C3 linearization: repeatedly take the first head that is in no
\* tail; when no head qualifies the order is inconsistent and the result ends
\* with Inconsistent
Inconsistent ==
    [name |-> "", bases |-> <<>>, annotations |-> <<>>, attrs |-> {},
     meta |-> "inconsistent"]

RECURSIVE Merge(_)
Merge(seqs) ==
    LET ne == SelectSeq(seqs, LAMBDA s : Len(s) > 0)
    IN  IF ne = <<>> THEN <<>>
        ELSE LET good == {i \in DOMAIN ne :
                            \A j \in DOMAIN ne : Head(ne[i]) \notin Range(Tail(ne[j]))}
             IN  IF good = {} THEN <<Inconsistent>>
                 ELSE LET h == Head(ne[CHOOSE k \in good : \A m \in good : k <= m])
                      IN  <<h>> \o Merge([j \in DOMAIN ne |->
                                            IF Head(ne[j]) = h THEN Tail(ne[j]) ELSE ne[j]])

\* cls.__mro__
RECURSIVE Mro(_)
Mro(cls) ==
    <<cls>> \o Merge([i \in DOMAIN cls.bases |-> Mro(cls.bases[i])] \o <<cls.bases>>)

\* type.__new__ returns a class for these bases: no base twice, and an order
\* that linearizes
BasesAccepted(bases) ==
    /\ \A i, j \in DOMAIN bases : bases[i] = bases[j] => i = j
    /\ Inconsistent \notin
         Range(Merge([i \in DOMAIN bases |-> Mro(bases[i])] \o <<bases>>))

\* hasattr that also counts a name a class only annotates
HasAttr_CountingAnnotations(cls, name) ==
    \E k \in Range(Mro(cls)) : name \in k.attrs \/ name \in Range(k.annotations)

\* a lookup in the namespace of the class body instead of hasattr
HasAttr_OwnNamespaceOnly(cls, name) == name \in cls.attrs

\* hasattr(cls, name): the name is bound in the namespace of a class of cls.__mro__
HasAttr(cls, name) == \E k \in Range(Mro(cls)) : name \in k.attrs

\* Base.__subclasses__(): the live classes that list Base among their bases
Subclasses(base) == {c \in heap : base \in Range(c.bases)}

----------------------------------------------------------------------------
(* ABContainer's static helpers. *)

RECURSIVE ClassBasesList(_)
RECURSIVE ExtendFrom(_, _)

\* the loop of __get_class_bases from position i on: the list it walks grows
\* by the bases of every element it visits
ExtendFrom(bases, i) ==
    IF i > Len(bases) THEN bases
    ELSE ExtendFrom(bases \o ClassBasesList(bases[i]), i + 1)

\* ABContainer.__get_class_bases
ClassBasesList(cls) == ExtendFrom(cls.bases, 1)

\* ABContainer._get_class_bases
GetClassBases(cls) == {base.name : base \in Range(ClassBasesList(cls))}

\* the names whose private prefix _get_class_needed_attributes skips
OmitNames(cls) == GetClassBases(cls) \cup {cls.name}

OmitStartingSequences(cls) == {"_" \o name \o "__" : name \in OmitNames(cls)}

\* ABContainer._get_class_needed_attributes
NeededAttributes(cls) ==
    SelectSeq(cls.annotations,
              LAMBDA attribute :
                  ~\E seq \in OmitStartingSequences(cls) : StartsWith(attribute, seq))

----------------------------------------------------------------------------
(* ABContainer.__new__ *)

IsContainer(cls) == cls.meta = "ABContainer"

RECURSIVE ParentRequiredFrom(_, _)
ParentRequiredFrom(bases, i) ==
    IF i > Len(bases) THEN <<>>
    ELSE (IF IsContainer(bases[i]) THEN NeededAttributes(bases[i]) ELSE <<>>)
         \o ParentRequiredFrom(bases, i + 1)

\* a loop that stops after the first container parent
ParentRequiredAttributes_FirstParentOnly(bases) ==
    LET containers == SelectSeq(bases, LAMBDA base : IsContainer(base))
    IN  IF containers = <<>> THEN <<>> ELSE NeededAttributes(Head(containers))

\* parent_required_attributes after the loop over the bases
ParentRequiredAttributes(bases) == ParentRequiredFrom(bases, 1)

IsFirstLevelChild(bases) == ~\E i \in DOMAIN bases : IsContainer(bases[i])

\* a loop that stops at the first missing requirement
MissingRequirements_FirstOnly(cls, bases) ==
    LET all == SelectSeq(ParentRequiredAttributes(bases),
                         LAMBDA requirement : ~HasAttr(cls, requirement))
    IN  IF all = <<>> THEN <<>> ELSE <<Head(all)>>

\* missing_requirements after the loop over parent_required_attributes
MissingRequirements(cls, bases) ==
    SelectSeq(ParentRequiredAttributes(bases),
              LAMBDA requirement : ~HasAttr(cls, requirement))

\* how __new__ ends for the class cls built from `bases`
NewResult(cls, bases) ==
    IF IsFirstLevelChild(bases)
    THEN IF NeededAttributes(cls) = <<>> THEN "EmptyInterfaceError" ELSE "ok"
    ELSE IF MissingRequirements(cls, bases) # <<>> THEN "UnmetRequirementError" ELSE "ok"

NewMissing(cls, bases) ==
    IF IsFirstLevelChild(bases) THEN <<>> ELSE MissingRequirements(cls, bases)

----------------------------------------------------------------------------
(* The program: class statements, the collector, calls of _get_class_bases. *)

Idle == [pc |-> "idle", cls |-> object, stack |-> <<>>, result |-> {}]

Init ==
    /\ heap = {object}
    /\ bound = {object}
    /\ raised = [c \in {} |-> <<>>]
    /\ walk = Idle

\* the base lists a class statement can write: classes the program holds
BaseLists ==
    {bases \in UNION {[1..n -> bound \ {object}] : n \in 0..MaxBases} :
        BasesAccepted(bases)}

\* the model keeps at most `capacity` user classes in memory
Room(capacity) == Cardinality(heap \ {object}) < capacity

\* `class name(*bases): body` with no container among the bases and no
\* metaclass keyword: type.__new__ alone builds the class
DeclarePlain(names, bodies, capacity) ==
    /\ walk.pc = "idle"
    /\ Room(capacity)
    /\ \E name \in names, bases \in BaseLists, body \in bodies :
          /\ IsFirstLevelChild(bases)
          /\ LET cls == NewClass(name, bases, body, "type")
             IN  /\ heap' = heap \cup {cls}
                 /\ bound' = bound \cup {cls}
    /\ UNCHANGED <<raised, walk>>

\* a class statement that runs ABContainer.__new__: metaclass=ABContainer, or a
\* base that is a container. The class exists once super().__new__ returns; a
\* raise leaves it unbound.
DeclareContainer(names, bodies, capacity) ==
    /\ walk.pc = "idle"
    /\ Room(capacity)
    /\ \E name \in names, bases \in BaseLists, body \in bodies :
          LET cls == NewClass(name, bases, body, "ABContainer")
              result == NewResult(cls, bases)
          IN  /\ heap' = heap \cup {cls}
              /\ IF result = "ok"
                 THEN /\ bound' = bound \cup {cls}
                      /\ UNCHANGED raised
                 ELSE /\ UNCHANGED bound
                      /\ raised' = [c \in DOMAIN raised \cup {cls} |->
                                      IF c = cls
                                      THEN [error |-> result,
                                            missing |-> NewMissing(cls, bases)]
                                      ELSE raised[c]]
    /\ UNCHANGED walk

\* the garbage collector frees the class objects the program holds no reference to
Collect ==
    /\ walk.pc = "idle"
    /\ heap # bound
    /\ heap' = bound
    /\ raised' = [c \in {} |-> <<>>]
    /\ UNCHANGED <<bound, walk>>

(* A call of _get_class_bases(cls), one step per loop iteration, call and   *)
(* return of __get_class_bases. A frame is the list `bases` of one           *)
(* activation and the position i of its for loop.                            *)

\* bases = list(cls.__bases__)
FrameFor(cls) == [bases |-> cls.bases, i |-> 1]

\* a loop that moves on without extending the list
Extended_DirectBasesOnly(frame, returned) == [bases |-> frame.bases, i |-> frame.i + 1]

\* bases.extend(<the list the inner call returned>), and the loop moves on
Extended(frame, returned) == [bases |-> frame.bases \o returned, i |-> frame.i + 1]

Top(stack) == stack[Len(stack)]

Pop(stack) == SubSeq(stack, 1, Len(stack) - 1)

WalkCall ==
    /\ walk.pc = "idle"
    /\ \E cls \in bound :
          walk' = [pc |-> "run", cls |-> cls, stack |-> <<FrameFor(cls)>>, result |-> {}]
    /\ UNCHANGED <<heap, bound, raised>>

\* the loop reaches an element: __get_class_bases is called on it
WalkDescend ==
    /\ walk.pc = "run"
    /\ Top(walk.stack).i <= Len(Top(walk.stack).bases)
    /\ walk' = [walk EXCEPT
                  !.stack = Append(@, FrameFor(Top(@).bases[Top(@).i]))]
    /\ UNCHANGED <<heap, bound, raised>>

\* the loop is past the end of its list: the activation returns the list, to
\* the loop that called it or to _get_class_bases, which keeps the names
WalkReturn ==
    /\ walk.pc = "run"
    /\ Top(walk.stack).i > Len(Top(walk.stack).bases)
    /\ IF Len(walk.stack) = 1
       THEN walk' = [walk EXCEPT
                       !.pc = "done",
                       !.result = {base.name : base \in Range(Top(walk.stack).bases)}]
       ELSE walk' = [walk EXCEPT
                       !.stack = Append(Pop(Pop(@)),
                                        Extended(Top(Pop(@)), Top(@).bases))]
    /\ UNCHANGED <<heap, bound, raised>>

Next ==
    \/ DeclarePlain(PublicClassNames, PlainBodies, MaxClasses)
    \/ DeclareContainer(PublicClassNames, Bodies, MaxClasses)
    \/ Collect

Spec == Init /\ [][Next]_vars

PrivateNext ==
    \/ DeclarePlain(ClassNames, PrivateBodies, MaxClasses)
    \/ DeclareContainer(ClassNames, PrivateBodies, MaxClasses)
    \/ Collect

PrivateSpec == Init /\ [][PrivateNext]_vars

\* containers over one field, deep enough for a chain of three subclasses
ChainNext ==
    \/ DeclareContainer(PublicClassNames, ChainBodies, MaxChain)
    \/ Collect

ChainSpec == Init /\ [][ChainNext]_vars

\* class hierarchies of bodiless classes, and calls of _get_class_bases on them
WalkNext ==
    \/ DeclarePlain(ClassNames, {EmptyBody}, MaxClasses)
    \/ WalkCall
    \/ WalkDescend
    \/ WalkReturn

\* a started call keeps running: nothing else runs in its thread
WalkSpec ==
    Init /\ [][WalkNext]_vars /\ WF_vars(WalkDescend) /\ WF_vars(WalkReturn)

----------------------------------------------------------------------------
(* Notions the properties are stated in, defined from the class objects      *)
(* alone and not through ABContainer's methods.                              *)

RECURSIVE ProperAncestors(_)
\* the direct and transitive base classes of cls
ProperAncestors(cls) ==
    Range(cls.bases) \cup UNION {ProperAncestors(b) : b \in Range(cls.bases)}

\* a class produced by the mechanism
Participating(cls) == cls.meta = "ABContainer"

DirectParticipating(cls) == {b \in Range(cls.bases) : Participating(b)}

\* cls went through ABContainer.__new__ as the subclass of a container
IsSubclassStatement(cls) == Participating(cls) /\ DirectParticipating(cls) # {}

\* cls went through ABContainer.__new__ as a root interface
IsRootStatement(cls) == Participating(cls) /\ DirectParticipating(cls) = {}

\* the names cls declares without a value in its own body
DeclaredUnassigned(cls) == {key \in Range(cls.annotations) : key \notin cls.attrs}

ExclusionPrefixes(cls) ==
    {"_" \o k.name \o "__" : k \in ProperAncestors(cls) \cup {cls}}

\* the Required-Field Set: declared-but-unassigned names outside every
\* exclusion prefix
RequiredFieldSet(cls) ==
    {key \in DeclaredUnassigned(cls) :
        \A prefix \in ExclusionPrefixes(cls) : ~StartsWith(key, prefix)}

RequiredUnion(cls) == UNION {RequiredFieldSet(b) : b \in DirectParticipating(cls)}

\* cls has the attribute by its own assignment or an inherited value
Exposes(cls, name) ==
    \/ name \in cls.attrs
    \/ \E k \in ProperAncestors(cls) : name \in k.attrs

\* the class statement for cls succeeded / failed
Succeeded(cls) == cls \in bound
Failed(cls) == cls \in heap \ bound

\* the body of cls is `pass`
HasEmptyBody(cls) == cls.annotations = <<>> /\ cls.attrs = {}

NoDuplicates(seq) == \A i, j \in DOMAIN seq : seq[i] = seq[j] => i = j

\* key is what a private identifier of the body of cls became
IsPrivateField(cls, key) ==
    \E i \in DOMAIN Idents :
        /\ StartsWith(Idents[i], "__")
        /\ ~EndsWith(Idents[i], "__")
        /\ key = Mangle(cls.name, Idents[i])

----------------------------------------------------------------------------
(* Properties. *)

\* C1: a class statement with at least one direct participating ancestor
\* succeeds if and only if the class exposes, by its own assignment or an
\* inherited value, every name of the union of its direct participating
\* ancestors' Required-Field Sets; a name it only declares does not count.
C1_SubclassAcceptedIffAllExposed ==
    \A cls \in heap :
        IsSubclassStatement(cls) =>
            (Succeeded(cls) <=> \A name \in RequiredUnion(cls) : Exposes(cls, name))

\* a subclass rejected although it declares (without a value) the name it
\* lacks, next to an accepted subclass of the same interface
C1_Witness ==
    \E rejected \in heap, accepted \in bound :
        /\ IsSubclassStatement(rejected) /\ Failed(rejected)
        /\ \E name \in RequiredUnion(rejected) :
              name \in Range(rejected.annotations) /\ ~Exposes(rejected, name)
        /\ IsSubclassStatement(accepted)
        /\ accepted.bases = rejected.bases
        /\ RequiredUnion(accepted) # {}

\* C2: the names an UnmetRequirementError lists are exactly the required names
\* (union over the direct participating ancestors) the subclass does not
\* expose: all of them, and none it exposes.
C2_ErrorListsExactlyTheMissing ==
    \A cls \in DOMAIN raised :
        raised[cls].error = "UnmetRequirementError" =>
            Range(raised[cls].missing) =
                {name \in RequiredUnion(cls) : ~Exposes(cls, name)}

\* a subclass of two interfaces with different required sets whose error
\* lists two names
C2_Witness ==
    \E cls \in DOMAIN raised :
        /\ raised[cls].error = "UnmetRequirementError"
        /\ Cardinality(DirectParticipating(cls)) = 2
        /\ \E b1, b2 \in DirectParticipating(cls) :
              RequiredFieldSet(b1) # RequiredFieldSet(b2)
        /\ Cardinality(Range(raised[cls].missing)) = 2

\* C3: a root interface whose Required-Field Set is empty is rejected with
\* EmptyInterfaceError, whatever its ordinary ancestors declare; a class with a
\* participating ancestor never is.
C3_EmptyRootRejected ==
    /\ \A cls \in heap :
          IsRootStatement(cls) /\ RequiredFieldSet(cls) = {} =>
              Failed(cls) /\ raised[cls].error = "EmptyInterfaceError"
    /\ \A cls \in DOMAIN raised :
          IsSubclassStatement(cls) => raised[cls].error # "EmptyInterfaceError"

\* C4: no name of a computed Required-Field Set starts with the private prefix
\* of the class or of an ancestor, so a private field of an interface is never
\* demanded: it is in no computed set and in no list of missing names.
C4_PrivateFieldNeverDemanded ==
    /\ \A cls \in heap :
          Participating(cls) =>
              \A key \in Range(NeededAttributes(cls)) :
                  /\ \A prefix \in ExclusionPrefixes(cls) : ~StartsWith(key, prefix)
                  /\ ~IsPrivateField(cls, key)
    /\ \A cls \in DOMAIN raised :
          \A key \in Range(raised[cls].missing) :
              \A b \in DirectParticipating(cls) : ~IsPrivateField(b, key)

\* C5: when A was accepted as the subclass of an interface and declares no
\* unassigned field of its own, `class AA(A): pass` is accepted, at any depth.
C5_EmptySubclassOfSatisfiedClassAccepted ==
    \A cls \in heap :
        /\ Participating(cls)
        /\ HasEmptyBody(cls)
        /\ Len(cls.bases) = 1
        /\ Succeeded(cls.bases[1])
        /\ IsSubclassStatement(cls.bases[1])
        /\ DeclaredUnassigned(cls.bases[1]) = {}
        => Succeeded(cls)

\* the chain I <- A <- AA <- AAA: A meets the requirement of I and annotates
\* the field together with its value, AA and AAA have empty bodies and are
\* accepted
C5_Witness ==
    \E aaa \in bound :
        /\ Participating(aaa) /\ HasEmptyBody(aaa) /\ Len(aaa.bases) = 1
        /\ LET aa == aaa.bases[1]
           IN  /\ Succeeded(aa) /\ HasEmptyBody(aa) /\ Len(aa.bases) = 1
               /\ LET a == aa.bases[1]
                  IN  /\ IsSubclassStatement(a)
                      /\ DeclaredUnassigned(a) = {}
                      /\ RequiredUnion(a) # {}
                      /\ a.annotations # <<>>

\* C6: the Required-Field Set computed for a class holds only names the class
\* declares without a value in its own body.
C6_ComputedSetIsDeclaredUnassigned ==
    \A cls \in heap :
        Participating(cls) =>
            Range(NeededAttributes(cls)) \subseteq DeclaredUnassigned(cls)

\* C7: a name two direct ancestors both require is one requirement: it appears
\* once in the list of missing names.
C7_MissingNamesListedOnce ==
    \A cls \in DOMAIN raised : NoDuplicates(raised[cls].missing)

\* C8: the classes available to the program, those it can derive from and
\* those registered as subclasses of their bases, are classes whose statement
\* succeeded.
C8_OnlyAcceptedClassesAvailable ==
    \A base \in bound : Subclasses(base) \subseteq bound

\* C10: every accepted class exposes every name of the Required-Field Set of
\* every participating proper ancestor, transitive or direct.
C10_AcceptedClassMeetsAllAncestors ==
    \A cls \in bound :
        \A anc \in ProperAncestors(cls) :
            Participating(anc) =>
                \A name \in Range(NeededAttributes(anc)) \cup RequiredFieldSet(anc) :
                    Exposes(cls, name)

\* an accepted class two levels below a root, whose parent adds a requirement
\* that the parent itself does not meet
C10_Witness ==
    \E cls \in bound :
        \E mid \in DirectParticipating(cls) :
            /\ Succeeded(mid)
            /\ \E name \in RequiredFieldSet(mid) : ~Exposes(mid, name)
            /\ \E root \in DirectParticipating(mid) :
                  /\ root \notin Range(cls.bases)
                  /\ RequiredFieldSet(root) # {}

\* C9: on an acyclic ancestry graph the traversal terminates; the name set it
\* returns is exactly the names of the direct and transitive bases of the
\* class, and the traversal never visits the class itself.
C9_TraversalYieldsAncestorNames ==
    /\ [](walk.pc = "done" =>
            /\ walk.result = {k.name : k \in ProperAncestors(walk.cls)}
            /\ walk.result = GetClassBases(walk.cls))
    /\ [](\A i \in DOMAIN walk.stack : walk.cls \notin Range(walk.stack[i].bases))
    /\ [](walk.pc = "run" => <>(walk.pc = "done"))

\* a finished traversal of a class with two direct bases that share an
\* ancestor, two of whose ancestors carry the same name
C9_Witness ==
    /\ walk.pc = "done"
    /\ Len(walk.cls.bases) = 2
    /\ ProperAncestors(walk.cls.bases[1]) \cap ProperAncestors(walk.cls.bases[2]) # {}
    /\ Cardinality(walk.result) < Cardinality(ProperAncestors(walk.cls))

====
